---- MODULE Spec2Model ----
(***************************************************************************)
(* Nonogram solver of dxcccii/LVMproject1: the line permutation enumerator *)
(* (computePerms / computePermsAux), the forced-cell grid Paux, the board  *)
(* encodings handed to the solver and the two-call uniqueness check        *)
(* (well_posed), in the four implementations the repository holds:         *)
(*   "Final"  src/project1nonogramFinal.py                                 *)
(*   "OptMax" src/project1nonogramoptimizedmax.py                          *)
(*   "Plots"  src/NonogramSolverPlots.py                                   *)
(*   "Basic"  src/project1nonogram.py                                      *)
(* Python lists and numpy arrays are sequences; a Python index i is the    *)
(* sequence index i + 1.                                                   *)
(***************************************************************************)
EXTENDS Integers, Sequences, FiniteSets, TLC

VARIABLES
    \* one call of computePerms
    lineImpl, lineConstraint, lineSz, lineKnowns, linePc, lineRes,
    \* ... and, when the call is followed step by step, the calls of
    \* computePermsAux under way, the shared buffer and the result list
    stack, currPerm, Perms,
    \* one run of nonogram / well_posed on a puzzle
    impl, fn, H, V, pc, s, m, Paux, sol1, sol2, ret, checks, TotalPerms,
    \* one run of a __main__: the puzzle file read, the grid drawn and its clues
    file, grid, row_clues, col_clues

auxVars == <<stack, currPerm, Perms>>
lineVars == <<lineImpl, lineConstraint, lineSz, lineKnowns, linePc, lineRes, auxVars>>
runVars == <<impl, fn, H, V, pc, s, m, Paux, sol1, sol2, ret, checks, TotalPerms>>
mainVars == <<file, grid, row_clues, col_clues>>
vars == <<lineVars, runVars, mainVars>>

----------------------------------------------------------------------------
(* Bounds of the model.                                                    *)

\* longest line handed to computePerms on its own
MaxSz == 4
\* largest block value of a constraint handed to computePerms on its own
MaxBlock == 3
\* most blocks of a constraint
MaxBlocks == 2
\* longest row or column of a puzzle
MaxLine == 3
\* most cells of a puzzle's board
MaxCells == 6
\* most cells of the board of a puzzle handed to a program
MaxMainCells == 4
\* the cells of a grid the generator draws
MaxGridCells == 6

----------------------------------------------------------------------------
(* Python values.                                                          *)

\* Knowns=None, and a numpy array given as Knowns
None == [isNone |-> TRUE, a |-> <<>>]
Arr(a) == [isNone |-> FALSE, a |-> a]

Min(a, b) == IF a < b THEN a ELSE b
Max(a, b) == IF a > b THEN a ELSE b

RECURSIVE sum(_)
sum(l) == IF Len(l) = 0 THEN 0 ELSE Head(l) + sum(Tail(l))

\* [v]*n: the empty list when n <= 0
Rep(v, n) == [k \in 1..Max(n, 0) |-> v]

\* l[a:b] of a list of length L, 0 <= a
Slice(l, a, b) ==
    LET lo == Min(a, Len(l))
        hi == Max(Min(b, Len(l)), lo)
    IN  SubSeq(l, lo + 1, hi)

\* l[a:a] = vals: vals put in at a, nothing taken out
SliceInsert(l, a, b, vals) ==
    LET lo == Min(a, Len(l))
    IN  SubSeq(l, 1, lo) \o vals \o SubSeq(l, lo + 1, Len(l))

\* l[a:b] = vals: the list grows when the slice ends before vals does
SliceAssign(l, a, b, vals) ==
    LET lo == Min(a, Len(l))
        hi == Max(Min(b, Len(l)), lo)
    IN  SubSeq(l, 1, lo) \o vals \o SubSeq(l, hi + 1, Len(l))

\* any(x == v for x in l)
AnyEq(l, v) == \E k \in 1..Len(l) : l[k] = v

\* all([c > 0 for c in constraints])
AllPositive(constraints) == \A k \in 1..Len(constraints) : constraints[k] > 0

\* sum(constraints) + len(constraints) - 1: the length a constraint needs
Needed(constraints) == sum(constraints) + Len(constraints) - 1

----------------------------------------------------------------------------
(* computePermsAux: the recursion threads the shared buffer currPerm and   *)
(* the result list Perms through every call; err is a raised IndexError,   *)
(* which ends the whole enumeration.                                       *)

St(buf, perms) == [buf |-> buf, perms |-> perms, err |-> FALSE]
Raise(st) == [st EXCEPT !.err = TRUE]

\* currPerm[k] = v
SetItem(st, k, v) ==
    IF k >= Len(st.buf) THEN Raise(st) ELSE [st EXCEPT !.buf[k + 1] = v]

\* Perms.append(currPerm.copy())
Emit(st) == [st EXCEPT !.perms = Append(@, st.buf)]

\* the number of blank cells that can still be placed at index i
whiteSpacesNoSeparators(constraints, i, sz) == sz - i - sum(constraints)
whiteSpaces(constraints, i, sz) ==
    sz - i - sum(constraints) - (Len(constraints) - 1)

\* src/project1nonogramFinal.py: no Knowns
RECURSIVE computePermsAux_Final(_, _, _, _)
computePermsAux_Final(constraints, i, sz, st) ==
    IF st.err THEN st
    ELSE IF i = sz THEN Emit(st)
    ELSE IF Len(constraints) = 0
         THEN Emit([st EXCEPT !.buf = SliceAssign(st.buf, i, Len(st.buf), Rep(0, sz - i))])
    ELSE
      LET \* possibility (i): a blank at i
          afterBlank ==
              IF whiteSpaces(constraints, i, sz) > 0
              THEN LET w == SetItem(st, i, 0)
                   IN  computePermsAux_Final(constraints, i + 1, sz, w)
              ELSE st
          blockSize == constraints[1]
          \* possibility (ii): the next block at i, and a blank after it
          placed(a) == [a EXCEPT !.buf = SliceAssign(a.buf, i, i + blockSize, Rep(1, blockSize))]
          separated(a) ==
              IF Len(constraints) > 1 THEN SetItem(placed(a), i + blockSize, 0)
              ELSE placed(a)
          step == IF Len(constraints) > 1 THEN blockSize + 1 ELSE blockSize
      IN  IF afterBlank.err THEN afterBlank
          ELSE computePermsAux_Final(Tail(constraints), i + step, sz, separated(afterBlank))

\* Knowns[k] == v on a numpy array: an IndexError past its end
KnownsOut(Knowns, k) == ~Knowns.isNone /\ k >= Len(Knowns.a)
KnownsIs(Knowns, k, v) == ~Knowns.isNone /\ k < Len(Knowns.a) /\ Knowns.a[k + 1] = v
\* any(Knowns[a:b] == v)
KnownsAny(Knowns, a, b, v) == ~Knowns.isNone /\ AnyEq(Slice(Knowns.a, a, b), v)

\* the Knowns a recursive call receives: src/NonogramSolverPlots.py hands its
\* own on (lines 42, 53); src/project1nonogramoptimizedmax.py names none
\* (lines 35, 47), so the callee runs with the default, None
PassKnowns(Knowns) == Knowns
DropKnowns(Knowns) == None

\* src/project1nonogramoptimizedmax.py
RECURSIVE computePermsAux_OptMax(_, _, _, _, _)
computePermsAux_OptMax(constraints, i, sz, st, Knowns) ==
    IF st.err THEN st
    ELSE IF i = sz THEN Emit(st)
    ELSE IF Len(constraints) = 0
         THEN IF KnownsAny(Knowns, i, Len(Knowns.a), 1) THEN st
              ELSE Emit([st EXCEPT !.buf = SliceAssign(st.buf, i, Len(st.buf), Rep(0, sz - i))])
    ELSE
      LET afterBlank ==
              IF whiteSpaces(constraints, i, sz) > 0
              THEN IF KnownsOut(Knowns, i) THEN Raise(st)
                   ELSE IF KnownsIs(Knowns, i, 1) THEN st
                   ELSE computePermsAux_OptMax(constraints, i + 1, sz,
                                               SetItem(st, i, 0), DropKnowns(Knowns))
              ELSE st
          blockSize == constraints[1]
          placed(a) == [a EXCEPT !.buf = SliceAssign(a.buf, i, i + blockSize, Rep(1, blockSize))]
          step == IF Len(constraints) > 1 THEN blockSize + 1 ELSE blockSize
      IN  IF afterBlank.err THEN afterBlank
          ELSE IF KnownsAny(Knowns, i, i + blockSize, 0) THEN afterBlank
          ELSE IF Len(constraints) > 1 /\ KnownsOut(Knowns, i + blockSize)
               THEN Raise(placed(afterBlank))
          ELSE IF Len(constraints) > 1 /\ KnownsIs(Knowns, i + blockSize, 1)
               THEN placed(afterBlank)
          ELSE computePermsAux_OptMax(
                   Tail(constraints), i + step, sz,
                   IF Len(constraints) > 1
                   THEN SetItem(placed(afterBlank), i + blockSize, 0)
                   ELSE placed(afterBlank),
                   DropKnowns(Knowns))

\* src/NonogramSolverPlots.py
RECURSIVE computePermsAux_Plots(_, _, _, _, _)
computePermsAux_Plots(constraints, i, sz, st, Knowns) ==
    IF st.err THEN st
    ELSE IF i = sz THEN Emit(st)
    ELSE IF Len(constraints) = 0
         THEN IF KnownsAny(Knowns, i, Len(Knowns.a), 1) THEN st
              ELSE Emit([st EXCEPT !.buf = SliceAssign(st.buf, i, Len(st.buf), Rep(0, sz - i))])
    ELSE
      LET afterBlank ==
              IF whiteSpaces(constraints, i, sz) > 0
              THEN IF KnownsOut(Knowns, i) THEN Raise(st)
                   ELSE IF KnownsIs(Knowns, i, 1) THEN st
                   ELSE computePermsAux_Plots(constraints, i + 1, sz,
                                              SetItem(st, i, 0), PassKnowns(Knowns))
              ELSE st
          nOnes == constraints[1]
          placed(a) == [a EXCEPT !.buf = SliceAssign(a.buf, i, i + nOnes, Rep(1, nOnes))]
          step == IF Len(constraints) > 1 THEN nOnes + 1 ELSE nOnes
      IN  IF afterBlank.err THEN afterBlank
          ELSE IF KnownsAny(Knowns, i, i + nOnes, 0) THEN afterBlank
          ELSE IF Len(constraints) > 1 /\ KnownsOut(Knowns, i + nOnes)
               THEN Raise(placed(afterBlank))
          ELSE IF Len(constraints) > 1 /\ KnownsIs(Knowns, i + nOnes, 1)
               THEN placed(afterBlank)
          ELSE computePermsAux_Plots(
                   Tail(constraints), i + step, sz,
                   IF Len(constraints) > 1
                   THEN SetItem(placed(afterBlank), i + nOnes, 0)
                   ELSE placed(afterBlank),
                   PassKnowns(Knowns))

----------------------------------------------------------------------------
(* computePerms: what a call ends with.  out is "return" (perms is the     *)
(* returned list), "exit" (exit(code): the process ends) or "IndexError".  *)

Returned(st) ==
    IF st.err THEN [out |-> "IndexError", perms |-> <<>>, code |-> 0]
    ELSE [out |-> "return", perms |-> st.perms, code |-> 0]
Exit(code) == [out |-> "exit", perms |-> <<>>, code |-> code]

computePerms_Final(constraints, sz) ==
    Returned(computePermsAux_Final(constraints, 0, sz, St(Rep(0, sz), <<>>)))

computePerms_OptMax(constraints, sz, Knowns) ==
    Returned(computePermsAux_OptMax(constraints, 0, sz, St(Rep(0, sz), <<>>), Knowns))

\* computePerms of src/NonogramSolverPlots.py called without its Knowns
computePerms_Plots_NoKnowns(constraints, sz, Knowns) ==
    IF ~AllPositive(constraints) THEN Exit(1)
    ELSE IF Needed(constraints) > sz THEN Exit(2)
    ELSE Returned(computePermsAux_Plots(constraints, 0, sz, St(Rep(0, sz), <<>>), None))

computePerms_Plots(constraints, sz, Knowns) ==
    IF ~AllPositive(constraints) THEN Exit(1)
    ELSE IF Needed(constraints) > sz THEN Exit(2)
    ELSE Returned(computePermsAux_Plots(constraints, 0, sz, St(Rep(0, sz), <<>>), Knowns))


----------------------------------------------------------------------------
(* One call of computePerms on a line, for every input within the bounds.  *)

Range(l) == {l[k] : k \in 1..Len(l)}

SeqsUpTo(S, n) == UNION {[1..k -> S] : k \in 0..n}

\* the constraints handed to computePerms: feasible for the line or not
LineConstraints == SeqsUpTo(1..MaxBlock, MaxBlocks)

\* the Knowns of a line of length n: None, or one of -1, 0, 1 per cell
LineKnowns(n) == {None} \cup {Arr(a) : a \in [1..n -> {-1, 0, 1}]}

NoResult == [out |-> "none", perms |-> <<>>, code |-> 0]

LineInit ==
    /\ lineImpl \in {"Final", "OptMax", "Plots"}
    /\ lineConstraint \in LineConstraints
    /\ lineSz \in 0..MaxSz
    /\ lineKnowns \in (IF lineImpl = "Final" THEN {None} ELSE LineKnowns(lineSz))
    /\ linePc = "call"
    /\ lineRes = NoResult
    /\ stack = <<>> /\ currPerm = <<>> /\ Perms = <<>>

CallPerms_Final ==
    /\ linePc = "call" /\ lineImpl = "Final"
    /\ lineRes' = computePerms_Final(lineConstraint, lineSz)
    /\ linePc' = "done"
    /\ UNCHANGED <<lineImpl, lineConstraint, lineSz, lineKnowns, auxVars>>
    /\ UNCHANGED <<runVars, mainVars>>

CallPerms_OptMax ==
    /\ linePc = "call" /\ lineImpl = "OptMax"
    /\ lineRes' = computePerms_OptMax(lineConstraint, lineSz, lineKnowns)
    /\ linePc' = "done"
    /\ UNCHANGED <<lineImpl, lineConstraint, lineSz, lineKnowns, auxVars>>
    /\ UNCHANGED <<runVars, mainVars>>

CallPerms_Plots ==
    /\ linePc = "call" /\ lineImpl = "Plots"
    /\ lineRes' = computePerms_Plots(lineConstraint, lineSz, lineKnowns)
    /\ linePc' = "done"
    /\ UNCHANGED <<lineImpl, lineConstraint, lineSz, lineKnowns, auxVars>>
    /\ UNCHANGED <<runVars, mainVars>>

LineNext == CallPerms_Final \/ CallPerms_OptMax \/ CallPerms_Plots

\* no call of computePerms is under way
LineIdle ==
    /\ lineImpl = "Final" /\ lineConstraint = <<>> /\ lineSz = 0
    /\ lineKnowns = None /\ linePc = "idle" /\ lineRes = NoResult
    /\ stack = <<>> /\ currPerm = <<>> /\ Perms = <<>>


----------------------------------------------------------------------------
(* One call of computePerms followed call by call through computePermsAux *)
(* (src/project1nonogramFinal.py and src/NonogramSolverPlots.py).  stack   *)
(* holds one frame per call under way, the outermost first: the arguments  *)
(* constraints and i, and where the call stands: "entry", "block" (it is   *)
(* past possibility (i) and about to place the block) or "done" (its last  *)
(* recursive call is under way).  currPerm and Perms are the two lists     *)
(* every call shares.                                                      *)

Frame(constraints, i, at) == [constraints |-> constraints, i |-> i, at |-> at]
Top == stack[Len(stack)]
\* the call on top returns
Pop == SubSeq(stack, 1, Len(stack) - 1)
\* the call on top moves on to where `at' says
Retop(at) == [stack EXCEPT ![Len(stack)].at = at]
\* ... and calls computePermsAux(constraints, i, ...)
Call(at, constraints, i) == Append(Retop(at), Frame(constraints, i, "entry"))

IndexError == [out |-> "IndexError", perms |-> <<>>, code |-> 0]

\* base case #2 with the assignment to currPerm[i:] left out
FillRest_Skip(buf, i, sz) == buf
\* currPerm[i:] = [0]*(sz - i)
FillRest(buf, i, sz) == SliceAssign(buf, i, Len(buf), Rep(0, sz - i))

InitAux == LineInit /\ lineImpl \in {"Final", "Plots"}

\* computePerms up to its call of computePermsAux: the two tests of
\* src/NonogramSolverPlots.py, then Perms = [] and currPerm = [0]*sz
EnterPerms ==
    /\ linePc = "call"
    /\ IF lineImpl = "Plots" /\ ~AllPositive(lineConstraint)
       THEN linePc' = "done" /\ lineRes' = Exit(1) /\ UNCHANGED auxVars
       ELSE IF lineImpl = "Plots" /\ Needed(lineConstraint) > lineSz
       THEN linePc' = "done" /\ lineRes' = Exit(2) /\ UNCHANGED auxVars
       ELSE /\ linePc' = "aux" /\ lineRes' = lineRes
            /\ stack' = <<Frame(lineConstraint, 0, "entry")>>
            /\ currPerm' = Rep(0, lineSz)
            /\ Perms' = <<>>
    /\ UNCHANGED <<lineImpl, lineConstraint, lineSz, lineKnowns>>
    /\ UNCHANGED <<runVars, mainVars>>

\* base case #1: i == sz
AuxEmit ==
    /\ linePc = "aux" /\ stack # <<>>
    /\ Top.at = "entry" /\ Top.i = lineSz
    /\ Perms' = Append(Perms, currPerm)
    /\ stack' = Pop
    /\ UNCHANGED <<lineImpl, lineConstraint, lineSz, lineKnowns, linePc, lineRes, currPerm>>
    /\ UNCHANGED <<runVars, mainVars>>

\* base case #2: no block is left
AuxFill ==
    /\ linePc = "aux" /\ stack # <<>>
    /\ Top.at = "entry" /\ Top.i # lineSz /\ Len(Top.constraints) = 0
    /\ IF KnownsAny(lineKnowns, Top.i, Len(lineKnowns.a), 1)
       THEN UNCHANGED <<currPerm, Perms>>
       ELSE /\ currPerm' = FillRest(currPerm, Top.i, lineSz)
            /\ Perms' = Append(Perms, currPerm')
    /\ stack' = Pop
    /\ UNCHANGED <<lineImpl, lineConstraint, lineSz, lineKnowns, linePc, lineRes>>
    /\ UNCHANGED <<runVars, mainVars>>

\* possibility (i): a blank at i and the same blocks from i + 1 on
AuxBlank ==
    /\ linePc = "aux" /\ stack # <<>>
    /\ Top.at = "entry" /\ Top.i # lineSz /\ Len(Top.constraints) > 0
    /\ whiteSpaces(Top.constraints, Top.i, lineSz) > 0
    /\ ~KnownsIs(lineKnowns, Top.i, 1)
    /\ IF KnownsOut(lineKnowns, Top.i) \/ Top.i >= Len(currPerm)
       THEN linePc' = "done" /\ lineRes' = IndexError /\ UNCHANGED auxVars
       ELSE /\ currPerm' = [currPerm EXCEPT ![Top.i + 1] = 0]
            /\ stack' = Call("block", Top.constraints, Top.i + 1)
            /\ UNCHANGED <<linePc, lineRes, Perms>>
    /\ UNCHANGED <<lineImpl, lineConstraint, lineSz, lineKnowns>>
    /\ UNCHANGED <<runVars, mainVars>>

\* no blank can be placed at i, or Knowns has a 1 there
AuxNoBlank ==
    /\ linePc = "aux" /\ stack # <<>>
    /\ Top.at = "entry" /\ Top.i # lineSz /\ Len(Top.constraints) > 0
    /\ whiteSpaces(Top.constraints, Top.i, lineSz) <= 0 \/ KnownsIs(lineKnowns, Top.i, 1)
    /\ stack' = Retop("block")
    /\ UNCHANGED <<lineImpl, lineConstraint, lineSz, lineKnowns, linePc, lineRes>>
    /\ UNCHANGED <<currPerm, Perms>>
    /\ UNCHANGED <<runVars, mainVars>>

\* possibility (ii): the next block at i, a blank after it when blocks
\* remain, and the remaining blocks after that
AuxBlock ==
    /\ linePc = "aux" /\ stack # <<>>
    /\ Top.at = "block"
    /\ LET i == Top.i
           nOnes == Top.constraints[1]
           rest == Tail(Top.constraints)
           placed == SliceAssign(currPerm, i, i + nOnes, Rep(1, nOnes))
       IN  IF KnownsAny(lineKnowns, i, i + nOnes, 0)
           THEN stack' = Pop /\ UNCHANGED <<linePc, lineRes, currPerm, Perms>>
           ELSE IF Len(rest) = 0
           THEN /\ currPerm' = placed
                /\ stack' = Call("done", rest, i + nOnes)
                /\ UNCHANGED <<linePc, lineRes, Perms>>
           ELSE IF KnownsOut(lineKnowns, i + nOnes)
           THEN /\ currPerm' = placed
                /\ linePc' = "done" /\ lineRes' = IndexError
                /\ UNCHANGED <<stack, Perms>>
           ELSE IF KnownsIs(lineKnowns, i + nOnes, 1)
           THEN /\ currPerm' = placed
                /\ stack' = Pop
                /\ UNCHANGED <<linePc, lineRes, Perms>>
           ELSE IF i + nOnes >= Len(placed)
           THEN /\ currPerm' = placed
                /\ linePc' = "done" /\ lineRes' = IndexError
                /\ UNCHANGED <<stack, Perms>>
           ELSE /\ currPerm' = [placed EXCEPT ![i + nOnes + 1] = 0]
                /\ stack' = Call("done", rest, i + nOnes + 1)
                /\ UNCHANGED <<linePc, lineRes, Perms>>
    /\ UNCHANGED <<lineImpl, lineConstraint, lineSz, lineKnowns>>
    /\ UNCHANGED <<runVars, mainVars>>

\* the last recursive call of a call has returned: the call returns
AuxReturn ==
    /\ linePc = "aux" /\ stack # <<>>
    /\ Top.at = "done"
    /\ stack' = Pop
    /\ UNCHANGED <<lineImpl, lineConstraint, lineSz, lineKnowns, linePc, lineRes>>
    /\ UNCHANGED <<currPerm, Perms>>
    /\ UNCHANGED <<runVars, mainVars>>

\* the outermost call has returned: return Perms
PermsReturn ==
    /\ linePc = "aux" /\ stack = <<>>
    /\ linePc' = "done"
    /\ lineRes' = [out |-> "return", perms |-> Perms, code |-> 0]
    /\ UNCHANGED <<lineImpl, lineConstraint, lineSz, lineKnowns, auxVars>>
    /\ UNCHANGED <<runVars, mainVars>>

NextAux ==
    \/ EnterPerms
    \/ AuxEmit
    \/ AuxFill
    \/ AuxBlank
    \/ AuxNoBlank
    \/ AuxBlock
    \/ AuxReturn
    \/ PermsReturn

----------------------------------------------------------------------------
(* The board and the formula.  P[i][j] is the cell <<i + 1, j + 1>>; a     *)
(* literal <<r, c, b>> is P[r][c] when b and Not(P[r][c]) otherwise; a     *)
(* conjunction And(...) is the set of its literals (And([]) is True: the   *)
(* empty set); an assertion Or(And(...), ...) is the set of its            *)
(* conjunctions (Or() is False: the empty set); the solver s holds the     *)
(* assertions in the order s.add received them.                            *)

Rows(hs) == Len(hs)
Cols(vs) == Len(vs)

Grids(R, C) == [1..R -> [1..C -> BOOLEAN]]

Holds(g, lit) == g[lit[1]][lit[2]] = lit[3]

\* no cell is both P[r][c] and Not(P[r][c]) among the literals
Consistent(lits) == \A lit \in lits : <<lit[1], lit[2], ~lit[3]>> \notin lits

\* the sets of literals got by picking, for each assertion from the k-th on,
\* one of its conjunctions that goes with what was picked before
RECURSIVE Propagate(_, _, _)
Propagate(solver, k, partials) ==
    IF k > Len(solver) THEN partials
    ELSE Propagate(solver, k + 1,
             {pick[1] \cup pick[2] :
                 pick \in {pick \in partials \X solver[k] : Consistent(pick[1] \cup pick[2])}})

\* the assignments of the whole board that agree with a set of literals
Completions(lits, R, C) ==
    LET free == {rc \in (1..R) \X (1..C) :
                    <<rc[1], rc[2], TRUE>> \notin lits /\ <<rc[1], rc[2], FALSE>> \notin lits}
    IN  {[r \in 1..R |-> [c \in 1..C |->
             IF <<r, c, TRUE>> \in lits THEN TRUE
             ELSE IF <<r, c, FALSE>> \in lits THEN FALSE
             ELSE a[<<r, c>>]]] : a \in [free -> BOOLEAN]}

\* the assignments of the board that satisfy every assertion: what
\* s.check() decides, and what s.model() draws from
Sat(solver, R, C) ==
    UNION {Completions(lits, R, C) : lits \in Propagate(solver, 1, {{}})}

\* [P[row][j] if p else Not(P[row][j]) for (j, p) in enumerate(pm)]
RowConj(row, pm) == {<<row, j, pm[j] # 0>> : j \in 1..Len(pm)}
ColConj(col, pm) == {<<i, col, pm[i] # 0>> : i \in 1..Len(pm)}

\* ... if Paux[row, j] == -1
RowConjUndetermined(row, pm, paux) ==
    {<<row, j, pm[j] # 0>> : j \in {j \in 1..Len(pm) : paux[row][j] = -1}}
ColConjUndetermined(col, pm, paux) ==
    {<<i, col, pm[i] # 0>> : i \in {i \in 1..Len(pm) : paux[i][col] = -1}}

\* the column of a grid, top to bottom
Column(g, c) == [r \in 1..Len(g) |-> g[r][c]]

\* What the encoding of a board ends with: out is "ok" (every line was
\* added), or the way the computePerms call of a line ended the run; a
\* permutation longer than the line raises an IndexError at P[row][j].
\* lines: per line, in the order of the code, the computePerms result, the
\* assertion built from it and the length of the line.
RECURSIVE AddLines(_, _, _)
AddLines(solver, total, lines) ==
    IF Len(lines) = 0 THEN [s |-> solver, TotalPerms |-> total, out |-> "ok"]
    ELSE LET l == Head(lines)
         IN  IF l.res.out # "return"
             THEN [s |-> solver, TotalPerms |-> total, out |-> l.res.out]
             ELSE IF \E k \in 1..Len(l.res.perms) : Len(l.res.perms[k]) > l.sz
             THEN [s |-> solver, TotalPerms |-> total + Len(l.res.perms), out |-> "IndexError"]
             ELSE AddLines(Append(solver, l.clause), total + Len(l.res.perms), Tail(lines))

Line(res, clause, sz) == [res |-> res, clause |-> clause, sz |-> sz]

\* src/project1nonogramFinal.py, nonogram (lines 85-100) and well_posed
\* (lines 137-143): every permutation of every line, over all its cells
Encode_Final(vs, hs) ==
    LET R == Rows(hs)
        C == Cols(vs)
        rowLine(row) ==
            LET res == computePerms_Final(hs[row], C)
            IN  Line(res, {RowConj(row, pm) : pm \in Range(res.perms)}, C)
        colLine(col) ==
            LET res == computePerms_Final(vs[col], R)
            IN  Line(res, {ColConj(col, pm) : pm \in Range(res.perms)}, R)
    IN  AddLines(<<>>, 0, [row \in 1..R |-> rowLine(row)] \o [col \in 1..C |-> colLine(col)])

\* src/NonogramSolverPlots.py, nonogram (lines 79-96): as Final, with the
\* computePerms that checks its input
Encode_PlotsNonogram(vs, hs) ==
    LET R == Rows(hs)
        C == Cols(vs)
        rowLine(row) ==
            LET res == computePerms_Plots(hs[row], C, None)
            IN  Line(res, {RowConj(row, pm) : pm \in Range(res.perms)}, C)
        colLine(col) ==
            LET res == computePerms_Plots(vs[col], R, None)
            IN  Line(res, {ColConj(col, pm) : pm \in Range(res.perms)}, R)
    IN  AddLines(<<>>, 0, [row \in 1..R |-> rowLine(row)] \o [col \in 1..C |-> colLine(col)])


----------------------------------------------------------------------------
(* The forced-cell grid Paux: -1 undetermined, 1 filled, 0 blank.          *)

\* perms.sum(axis=0)[j]
permsSum(perms, j) == sum([k \in 1..Len(perms) |-> perms[k][j]])

\* Paux[...] = 1 where permsSum == len(perms), then = 0 where permsSum == 0;
\* a cell of neither kind keeps what it held
ForcedVerdict_AnyFilled(colSum, n, prev) ==
    IF colSum = 0 THEN 0 ELSE IF colSum >= 1 THEN 1 ELSE prev
ForcedVerdict(colSum, n, prev) ==
    IF colSum = 0 THEN 0 ELSE IF colSum = n THEN 1 ELSE prev

\* the way the first call that does not return ends, "ok" when all return
RECURSIVE FirstFailure(_)
FirstFailure(results) ==
    IF Len(results) = 0 THEN "ok"
    ELSE IF Head(results).out # "return" THEN Head(results).out
    ELSE FirstFailure(Tail(results))

\* the two passes the other way round, columns then rows: a row's verdict
\* overwrites the column's
PauxOf_RowsLast(R, C, rowRes, colRes) ==
    LET afterCols ==
            [r \in 1..R |-> [c \in 1..C |->
                ForcedVerdict(permsSum(colRes[c].perms, r), Len(colRes[c].perms), -1)]]
        afterRows ==
            [r \in 1..R |-> [c \in 1..C |->
                ForcedVerdict(permsSum(rowRes[r].perms, c), Len(rowRes[r].perms),
                              afterCols[r][c])]]
    IN  [paux |-> afterRows, out |-> FirstFailure(rowRes \o colRes)]

\* the two passes, rows then columns, given the computePerms results of the
\* lines: a column's verdict overwrites the row's
PauxOf(R, C, rowRes, colRes) ==
    LET afterRows ==
            [r \in 1..R |-> [c \in 1..C |->
                ForcedVerdict(permsSum(rowRes[r].perms, c), Len(rowRes[r].perms), -1)]]
        afterCols ==
            [r \in 1..R |-> [c \in 1..C |->
                ForcedVerdict(permsSum(colRes[c].perms, r), Len(colRes[c].perms),
                              afterRows[r][c])]]
    IN  [paux |-> afterCols, out |-> FirstFailure(rowRes \o colRes)]

\* src/project1nonogramoptimizedmax.py, lines 70-84
Paux_OptMax(vs, hs) ==
    PauxOf(Rows(hs), Cols(vs),
           [r \in 1..Rows(hs) |-> computePerms_OptMax(hs[r], Cols(vs), None)],
           [c \in 1..Cols(vs) |-> computePerms_OptMax(vs[c], Rows(hs), None)])

\* src/NonogramSolverPlots.py, lines 127-137
Paux_Plots(vs, hs) ==
    PauxOf(Rows(hs), Cols(vs),
           [r \in 1..Rows(hs) |-> computePerms_Plots(hs[r], Cols(vs), None)],
           [c \in 1..Cols(vs) |-> computePerms_Plots(vs[c], Rows(hs), None)])

\* s.add(P[r][c]) where Paux is 1 and nothing where it is 0
Units_FilledOnly(paux, R, C) ==
    LET cells == [k \in 1..(R * C) |-> <<((k - 1) \div C) + 1, ((k - 1) % C) + 1>>]
        forced(cell) == paux[cell[1]][cell[2]] = 1
        picked == SelectSeq(cells, forced)
    IN  [k \in 1..Len(picked) |-> {{<<picked[k][1], picked[k][2], TRUE>>}}]

\* s.add(Not(P[r][c])) where Paux is 1, s.add(P[r][c]) where it is 0
Units_Inverted(paux, R, C) ==
    LET cells == [k \in 1..(R * C) |-> <<((k - 1) \div C) + 1, ((k - 1) % C) + 1>>]
        forced(cell) == paux[cell[1]][cell[2]] # -1
        picked == SelectSeq(cells, forced)
    IN  [k \in 1..Len(picked) |->
            {{<<picked[k][1], picked[k][2], paux[picked[k][1]][picked[k][2]] = 0>>}}]

\* s.add(P[r][c]) where Paux is 1, s.add(Not(P[r][c])) where it is 0, row
\* by row
Units(paux, R, C) ==
    LET cells == [k \in 1..(R * C) |-> <<((k - 1) \div C) + 1, ((k - 1) % C) + 1>>]
        forced(cell) == paux[cell[1]][cell[2]] # -1
        picked == SelectSeq(cells, forced)
    IN  [k \in 1..Len(picked) |->
            {{<<picked[k][1], picked[k][2], paux[picked[k][1]][picked[k][2]] = 1>>}}]

\* src/project1nonogramoptimizedmax.py, well_posed_optimized (lines 70-102):
\* the unit constraints, then every line's permutations under its Knowns,
\* over all its cells
Encode_OptMax(vs, hs) ==
    LET R == Rows(hs)
        C == Cols(vs)
        p == Paux_OptMax(vs, hs)
        rowLine(row) ==
            LET res == computePerms_OptMax(hs[row], C, Arr(p.paux[row]))
            IN  Line(res, {RowConj(row, pm) : pm \in Range(res.perms)}, C)
        colLine(col) ==
            LET res == computePerms_OptMax(vs[col], R, Arr(Column(p.paux, col)))
            IN  Line(res, {ColConj(col, pm) : pm \in Range(res.perms)}, R)
        e == AddLines(Units(p.paux, R, C), 0,
                      [row \in 1..R |-> rowLine(row)] \o [col \in 1..C |-> colLine(col)])
    IN  IF p.out # "ok"
        THEN [s |-> <<>>, TotalPerms |-> 0, out |-> p.out, Paux |-> p.paux]
        ELSE [s |-> e.s, TotalPerms |-> e.TotalPerms, out |-> e.out, Paux |-> p.paux]

\* src/NonogramSolverPlots.py, well_posed (lines 127-165): the unit
\* constraints, then every line's permutations under its Knowns, over its
\* undetermined cells only
Encode_Plots(vs, hs) ==
    LET R == Rows(hs)
        C == Cols(vs)
        p == Paux_Plots(vs, hs)
        rowLine(row) ==
            LET res == computePerms_Plots(hs[row], C, Arr(p.paux[row]))
            IN  Line(res, {RowConjUndetermined(row, pm, p.paux) : pm \in Range(res.perms)}, C)
        colLine(col) ==
            LET res == computePerms_Plots(vs[col], R, Arr(Column(p.paux, col)))
            IN  Line(res, {ColConjUndetermined(col, pm, p.paux) : pm \in Range(res.perms)}, R)
        e == AddLines(Units(p.paux, R, C), 0,
                      [row \in 1..R |-> rowLine(row)] \o [col \in 1..C |-> colLine(col)])
    IN  IF p.out # "ok"
        THEN [s |-> <<>>, TotalPerms |-> 0, out |-> p.out, Paux |-> p.paux]
        ELSE [s |-> e.s, TotalPerms |-> e.TotalPerms, out |-> e.out, Paux |-> p.paux]


----------------------------------------------------------------------------
(* src/project1nonogram.py: the formula of a line built from the block     *)
(* placements directly, without permutations.                              *)

\* place_blocks(start, remaining_constraints), as the set of conjunctions of
\* its disjunctive normal form; cells is the line's list of board cells
RECURSIVE place_blocks(_, _, _)
place_blocks(cells, start, remaining_constraints) ==
    LET n == Len(cells)
        lit(k, b) == <<cells[k + 1][1], cells[k + 1][2], b>>
    IN  IF Len(remaining_constraints) = 0
        THEN {{lit(k, FALSE) : k \in start..(n - 1)}}
        ELSE LET block_size == remaining_constraints[1]
                 rest == Tail(remaining_constraints)
                 block(i) ==
                     {lit(j, TRUE) : j \in i..(i + block_size - 1)}
                     \cup (IF Len(rest) > 0 /\ i + block_size < n
                           THEN {lit(i + block_size, FALSE)} ELSE {})
             IN  UNION {{block(i) \cup d : d \in place_blocks(cells, i + block_size + 1, rest)} :
                        i \in start..(n - block_size)}

apply_constraints(cells, constraints) ==
    IF Len(constraints) = 0
    THEN {{<<cells[k][1], cells[k][2], FALSE>> : k \in 1..Len(cells)}}
    ELSE place_blocks(cells, 0, constraints)

\* nonogram (lines 63-72) and well_posed (lines 104-110)
Encode_Basic(vs, hs) ==
    LET num_rows == Len(hs)
        num_cols == Len(vs)
    IN  [s |-> [r \in 1..num_rows |->
                   apply_constraints([c \in 1..num_cols |-> <<r, c>>], hs[r])]
               \o [c \in 1..num_cols |->
                   apply_constraints([r \in 1..num_rows |-> <<r, c>>], vs[c])],
         TotalPerms |-> 0, out |-> "ok"]

----------------------------------------------------------------------------
(* What the functions hand back.                                           *)

\* the solution as printed: '|X| |' per row, the rows joined by newlines,
\* as the sequence of its characters
RECURSIVE Join(_, _)
Join(strs, sep) ==
    IF Len(strs) = 0 THEN <<>>
    ELSE IF Len(strs) = 1 THEN strs[1]
    ELSE strs[1] \o sep \o Join(Tail(strs), sep)

Render(g) ==
    Join([r \in 1..Len(g) |->
            <<"|">> \o Join([c \in 1..Len(g[r]) |-> IF g[r][c] THEN <<"X">> ELSE <<" ">>],
                            <<"|">>) \o <<"|">>],
         <<"\n">>)

\* [[1 if model[grid[r][c]] == True else 0 ...] ...]
Grid01(g) == [r \in 1..Len(g) |-> [c \in 1..Len(g[r]) |-> IF g[r][c] THEN 1 ELSE 0]]

\* a returned value: its Python shape, its truth (True, or sat) and the grid
\* it carries (<<>>: None, or the empty list)
RetBool(b) == [shape |-> "bool", val |-> b, grid |-> <<>>]
RetPair(b, g) == [shape |-> "pair", val |-> b, grid |-> g]
RetGrid(g) == [shape |-> "grid", val |-> TRUE, grid |-> g]
RetNone == [shape |-> "None", val |-> FALSE, grid |-> <<>>]
NoRet == [shape |-> "none", val |-> FALSE, grid |-> <<>>]

\* And(*(Not(P[i][j]) ... if m[P[i][j]])): every filled cell of the model
\* emptied at once
BlockingClause_And(g) ==
    {{<<rc[1], rc[2], FALSE>> : rc \in {rc \in (1..Len(g)) \X (1..Len(g[1])) : g[rc[1]][rc[2]]}}}

\* the literal that contradicts the model at every cell, filled or blank
BlockingClause_EveryCell(g) ==
    {{<<r, c, ~g[r][c]>>} : <<r, c>> \in (1..Len(g)) \X (1..Len(g[1]))}

\* Or(*(Not(P[i][j]) ... if m[P[i][j]])): the filled cells of the model,
\* negated (src/project1nonogramFinal.py line 150, NonogramSolverPlots.py
\* line 175, project1nonogramoptimizedmax.py line 113)
BlockingClause(g) ==
    {{<<r, c, FALSE>>} : <<r, c>> \in {rc \in (1..Len(g)) \X (1..Len(g[1])) : g[rc[1]][rc[2]]}}

\* Or([grid[r][c] != (solution[r][c] == 1) ...]): every cell, contradicted
\* (src/project1nonogram.py line 114)
exclusion_constraint(solution) ==
    {{<<r, c, ~(solution[r][c] = 1)>>} : <<r, c>> \in (1..Len(solution)) \X (1..Len(solution[1]))}


----------------------------------------------------------------------------
(* Puzzles.                                                                *)

\* one loop of checkConstraints over the constraints of the rows, or of the
\* columns: the first constraint with a value that is not positive, or that
\* needs more than n cells, ends it with False
RECURSIVE checkLines(_, _)
checkLines(consts, n) ==
    IF Len(consts) = 0 THEN TRUE
    ELSE IF ~AllPositive(Head(consts)) THEN FALSE
    ELSE IF Needed(Head(consts)) > n THEN FALSE
    ELSE checkLines(Tail(consts), n)

\* both loops measuring against the number of rows and of columns the
\* other way round
checkConstraints_Transposed(hs, vs) ==
    IF ~checkLines(hs, Len(hs)) THEN FALSE ELSE checkLines(vs, Len(vs))

\* checkConstraints(H, V): all block sizes positive and every line long
\* enough (src/project1nonogramFinal.py lines 182-198)
checkConstraints(hs, vs) ==
    LET R == Len(hs)
        C == Len(vs)
    IN  IF ~checkLines(hs, C) THEN FALSE ELSE checkLines(vs, R)

\* the constraints of a line of length n that pass
ValidLines(n) == {c \in SeqsUpTo(1..n, MaxBlocks) : Needed(c) <= n}

Dims == {d \in (1..MaxLine) \X (1..MaxLine) : d[1] * d[2] <= MaxCells}

\* the functions each file defines
Functions ==
    {<<"Final", "nonogram">>, <<"Final", "well_posed">>, <<"OptMax", "well_posed">>,
     <<"Plots", "nonogram">>, <<"Plots", "well_posed">>,
     <<"Basic", "nonogram">>, <<"Basic", "well_posed">>}

----------------------------------------------------------------------------
(* One run of nonogram(V, H) or well_posed(V, H) on a puzzle that passed   *)
(* checkConstraints.  pc: Start, FirstSolve (the formula is built, the     *)
(* first s.check() is under way), HaveFirst, SecondSolve (the blocking     *)
(* clause is added, the second s.check() is under way), and where the run  *)
(* ends: NoSolution, UniqueSolved, MultipleSolutions for well_posed,       *)
(* Solved, Unsatisfiable for nonogram, exit or IndexError when the         *)
(* encoding ends the process.                                              *)

RunInit ==
    /\ \E f \in Functions : impl = f[1] /\ fn = f[2]
    /\ \E d \in Dims :
          /\ H \in [1..d[1] -> ValidLines(d[2])]
          /\ V \in [1..d[2] -> ValidLines(d[1])]
    /\ checkConstraints(H, V)
    /\ pc = "Start"
    /\ s = <<>> /\ m = <<>> /\ Paux = <<>>
    /\ sol1 = <<>> /\ sol2 = <<>>
    /\ ret = NoRet
    /\ checks = 0
    /\ TotalPerms = 0

Encode(im, f, vs, hs) ==
    CASE im = "Final" -> Encode_Final(vs, hs) @@ [Paux |-> <<>>]
      [] im = "Plots" /\ f = "nonogram" -> Encode_PlotsNonogram(vs, hs) @@ [Paux |-> <<>>]
      [] im = "Plots" /\ f = "well_posed" -> Encode_Plots(vs, hs)
      [] im = "OptMax" -> Encode_OptMax(vs, hs)
      [] im = "Basic" -> Encode_Basic(vs, hs) @@ [Paux |-> <<>>]

\* the function up to its first s.check()
Build ==
    /\ pc = "Start"
    /\ LET e == Encode(impl, fn, V, H)
       IN  /\ s' = e.s
           /\ Paux' = e.Paux
           /\ TotalPerms' = (IF impl = "Plots" THEN e.TotalPerms ELSE 0)
           /\ pc' = (IF e.out = "ok" THEN "FirstSolve" ELSE e.out)
    /\ UNCHANGED <<impl, fn, H, V, m, sol1, sol2, ret, checks>>
    /\ UNCHANGED <<lineVars, mainVars>>

\* what nonogram returns with a model: (sat, solvedPuzzle), or the grid
Solved(g) == IF impl = "Basic" THEN RetGrid(Grid01(g)) ELSE RetPair(TRUE, Render(g))
\* ... and without one: (unsat, []), or None
Unsatisfiable == IF impl = "Basic" THEN RetNone ELSE RetPair(FALSE, <<>>)
\* what well_posed returns: a bool, or in NonogramSolverPlots.py a pair;
\* return False, or (False, None), after a second solution and after no
\* solution at all
NotWellPosedMultiple == IF impl = "Plots" THEN RetPair(FALSE, <<>>) ELSE RetBool(FALSE)
NotWellPosedUnsat == IF impl = "Plots" THEN RetPair(FALSE, <<>>) ELSE RetBool(FALSE)
WellPosed_NoGrid == RetBool(TRUE)
WellPosed == IF impl = "Plots" THEN RetPair(TRUE, sol1) ELSE RetBool(TRUE)

\* the first s.check() is sat: nonogram returns the model's grid, well_posed
\* goes on with the model
FirstCheckSat ==
    /\ pc = "FirstSolve"
    /\ \E g \in Sat(s, Len(H), Len(V)) :
          /\ m' = g
          /\ IF fn = "nonogram"
             THEN pc' = "Solved" /\ ret' = Solved(g)
             ELSE pc' = "HaveFirst" /\ ret' = ret
    /\ checks' = checks + 1
    /\ UNCHANGED <<impl, fn, H, V, s, Paux, sol1, sol2, TotalPerms>>
    /\ UNCHANGED <<lineVars, mainVars>>

\* the first s.check() is unsat and well_posed goes on to the second
FirstCheckUnsat_Fallthrough ==
    /\ pc = "FirstSolve"
    /\ Sat(s, Len(H), Len(V)) = {}
    /\ IF fn = "nonogram"
       THEN pc' = "Unsatisfiable" /\ ret' = Unsatisfiable
       ELSE pc' = "SecondSolve" /\ ret' = ret
    /\ checks' = checks + 1
    /\ UNCHANGED <<impl, fn, H, V, s, m, Paux, sol1, sol2, TotalPerms>>
    /\ UNCHANGED <<lineVars, mainVars>>

\* the first s.check() is unsat
FirstCheckUnsat ==
    /\ pc = "FirstSolve"
    /\ Sat(s, Len(H), Len(V)) = {}
    /\ IF fn = "nonogram"
       THEN pc' = "Unsatisfiable" /\ ret' = Unsatisfiable
       ELSE pc' = "NoSolution" /\ ret' = NotWellPosedUnsat
    /\ checks' = checks + 1
    /\ UNCHANGED <<impl, fn, H, V, s, m, Paux, sol1, sol2, TotalPerms>>
    /\ UNCHANGED <<lineVars, mainVars>>

\* well_posed with the first model, the first solution kept and no clause
\* added to the solver
Block_NoClause ==
    /\ pc = "HaveFirst"
    /\ sol1' = (IF impl = "Basic" THEN Grid01(m) ELSE Render(m))
    /\ pc' = "SecondSolve"
    /\ UNCHANGED <<impl, fn, H, V, s, m, Paux, sol2, ret, checks, TotalPerms>>
    /\ UNCHANGED <<lineVars, mainVars>>

\* well_posed with the first model: the first solution is kept and the
\* clause that excludes it is added.  src/project1nonogram.py builds a new
\* solver with the same line formulas before it adds the clause.
Block ==
    /\ pc = "HaveFirst"
    /\ IF impl = "Basic"
       THEN /\ sol1' = Grid01(m)
            /\ s' = Append(Encode_Basic(V, H).s, exclusion_constraint(Grid01(m)))
       ELSE /\ sol1' = Render(m)
            /\ s' = Append(s, BlockingClause(m))
    /\ pc' = "SecondSolve"
    /\ UNCHANGED <<impl, fn, H, V, m, Paux, sol2, ret, checks, TotalPerms>>
    /\ UNCHANGED <<lineVars, mainVars>>

\* the second s.check() is sat: a second solution
SecondCheckSat ==
    /\ pc = "SecondSolve"
    /\ \E g \in Sat(s, Len(H), Len(V)) :
          /\ m' = (IF impl = "Basic" THEN m ELSE g)
          /\ sol2' = (IF impl = "Basic" THEN sol2 ELSE Render(g))
    /\ pc' = "MultipleSolutions"
    /\ ret' = NotWellPosedMultiple
    /\ checks' = checks + 1
    /\ UNCHANGED <<impl, fn, H, V, s, Paux, sol1, TotalPerms>>
    /\ UNCHANGED <<lineVars, mainVars>>

\* the second s.check() is unsat: the first solution is the only one
SecondCheckUnsat ==
    /\ pc = "SecondSolve"
    /\ Sat(s, Len(H), Len(V)) = {}
    /\ pc' = "UniqueSolved"
    /\ ret' = WellPosed
    /\ checks' = checks + 1
    /\ UNCHANGED <<impl, fn, H, V, s, m, Paux, sol1, sol2, TotalPerms>>
    /\ UNCHANGED <<lineVars, mainVars>>

RunNext ==
    \/ Build
    \/ FirstCheckSat
    \/ FirstCheckUnsat
    \/ Block
    \/ SecondCheckSat
    \/ SecondCheckUnsat

\* no run is under way
RunIdle ==
    /\ impl = "none" /\ fn = "none" /\ H = <<>> /\ V = <<>> /\ pc = "idle"
    /\ s = <<>> /\ m = <<>> /\ Paux = <<>> /\ sol1 = <<>> /\ sol2 = <<>>
    /\ ret = NoRet /\ checks = 0 /\ TotalPerms = 0

\* no __main__ is under way: no file was read and no grid drawn
MainIdle == file = <<>> /\ grid = <<>> /\ row_clues = <<>> /\ col_clues = <<>>

----------------------------------------------------------------------------
(* The specifications: runs of the solver on puzzles, and single calls of  *)
(* computePerms.                                                           *)

----------------------------------------------------------------------------
(* The programs: the __main__ of project1nonogramFinal.py (checkConstraints, *)
(* nonogram, well_posed), of project1nonogramoptimizedmax.py               *)
(* (checkConstraints, well_posed_optimized), one turn of the loop of       *)
(* NonogramSolverPlots.py (readPuzzle, nonogram, the assert on the sums,   *)
(* the statistics, continue) and generate_valid_nonogram of                *)
(* generateNonograms.py.  pc is Main before the first call.                *)

\* constraints that do not pass for a line of n cells: a value that is not
\* positive, a block too long, two blocks too long together
BadLines(n) == {<<0>>, <<n + 1>>, <<n, 1>>}

MainDims == {d \in Dims : d[1] * d[2] <= MaxMainCells}

ValidPuzzles ==
    UNION {[1..d[1] -> ValidLines(d[2])] \X [1..d[2] -> ValidLines(d[1])] : d \in MainDims}

\* a puzzle with one of its lines replaced by one that does not pass
Spoiled(p) ==
    {<<[p[1] EXCEPT ![r] = b], p[2]>> : r \in 1..Len(p[1]), b \in BadLines(Len(p[2]))}
    \cup {<<p[1], [p[2] EXCEPT ![c] = b]>> : c \in 1..Len(p[2]), b \in BadLines(Len(p[1]))}

\* the puzzles handed to a program, <<H, V>>
MainPuzzles == ValidPuzzles \cup UNION {Spoiled(p) : p \in ValidPuzzles}

Digits == <<"0", "1", "2", "3", "4", "5", "6", "7", "8", "9">>

\* the decimal digits of n >= 0
RECURSIVE decimal(_)
decimal(n) ==
    IF n < 10 THEN <<Digits[n + 1]>> ELSE decimal(n \div 10) \o <<Digits[(n % 10) + 1]>>

\* a puzzle file of RealPuzzles, as the list of its lines: "R C", then a
\* line per row and a line per column, the values of the constraint
\* separated by a space
TextOf(p) ==
    LET text(c) == Join([k \in 1..Len(c) |-> decimal(c[k])], <<" ">>)
    IN  <<decimal(Len(p[1])) \o <<" ">> \o decimal(Len(p[2]))>>
        \o [r \in 1..Len(p[1]) |-> text(p[1][r])]
        \o [c \in 1..Len(p[2]) |-> text(p[2][c])]

\* l.strip().split(): the words of a line, cut at the spaces
RECURSIVE split(_, _, _)
split(l, word, words) ==
    IF Len(l) = 0 THEN (IF word = <<>> THEN words ELSE Append(words, word))
    ELSE IF Head(l) = " "
    THEN split(Tail(l), <<>>, IF word = <<>> THEN words ELSE Append(words, word))
    ELSE split(Tail(l), Append(word, Head(l)), words)

\* int(word), word a string of decimal digits
RECURSIVE int(_, _)
int(word, n) ==
    IF Len(word) = 0 THEN n
    ELSE int(Tail(word), 10 * n + (CHOOSE v \in 0..9 : Digits[v + 1] = Head(word)))

\* list(map(int, l.strip().split()))
ints(l) == LET words == split(l, <<>>, <<>>) IN [k \in 1..Len(words) |-> int(words[k], 0)]

\* readPuzzle (src/NonogramSolverPlots.py lines 16-22), lines the lines of
\* the file: R rows after the first line, and every line left is a column
readPuzzle(lines) ==
    LET RC == ints(lines[1])
        R == RC[1]
    IN  <<[k \in 1..Min(R, Len(lines) - 1) |-> ints(lines[k + 1])],
          [k \in 1..Max(Len(lines) - 1 - R, 0) |-> ints(lines[k + 1 + R])]>>

\* sum(list(map(sum, H)))
sumOfSums(consts) == sum([k \in 1..Len(consts) |-> sum(consts[k])])

\* nBlocks of the statistics: the number of blocks of the constraints
nBlocks(consts) == sum([k \in 1..Len(consts) |-> Len(consts[k])])

\* random.randint(0, 1) for every cell of L rows of C cells
RandomGrids(L, C) == [1..L -> [1..C -> {0, 1}]]

\* every row and every column of the grid holds a 1
Accepted(g) ==
    /\ \A r \in 1..Len(g) : \E c \in 1..Len(g[r]) : g[r][c] = 1
    /\ \A c \in 1..Len(g[1]) : \E r \in 1..Len(g) : g[r][c] = 1

\* the sizes generate_valid_nonogram(L, C) is called with
GridDims == {d \in (1..MaxLine) \X (1..MaxLine) : d[1] * d[2] <= MaxGridCells}

\* the loop over the cells of a line without the append after the loop
RECURSIVE clueFrom_DropLast(_, _, _, _)
clueFrom_DropLast(cells, k, count, clue) ==
    IF k > Len(cells) THEN clue
    ELSE IF cells[k] = 1 THEN clueFrom_DropLast(cells, k + 1, count + 1, clue)
    ELSE clueFrom_DropLast(cells, k + 1, 0, IF count > 0 THEN Append(clue, count) ELSE clue)

\* the loop over the cells of a line: count runs over the 1s and is
\* appended to the clue at the 0 that ends a run and at the end of the line
RECURSIVE clueFrom(_, _, _, _)
clueFrom(cells, k, count, clue) ==
    IF k > Len(cells) THEN (IF count > 0 THEN Append(clue, count) ELSE clue)
    ELSE IF cells[k] = 1 THEN clueFrom(cells, k + 1, count + 1, clue)
    ELSE clueFrom(cells, k + 1, 0, IF count > 0 THEN Append(clue, count) ELSE clue)

\* row_clue if row_clue else [0]
clueOf(cells) ==
    LET clue == clueFrom(cells, 1, 0, <<>>) IN IF clue # <<>> THEN clue ELSE <<0>>

Programs == {"Final", "OptMax", "Plots", "Generate"}

MainInit ==
    /\ impl \in Programs
    /\ IF impl = "Generate"
       THEN /\ \E d \in GridDims : grid \in RandomGrids(d[1], d[2])
            /\ file = <<>> /\ H = <<>> /\ V = <<>>
            /\ fn = "generate_valid_nonogram" /\ pc = "Drawn"
       ELSE /\ \E p \in MainPuzzles :
                 IF impl = "Plots"
                 THEN file = TextOf(p) /\ H = <<>> /\ V = <<>>
                 ELSE file = <<>> /\ H = p[1] /\ V = p[2]
            /\ grid = <<>>
            /\ fn = "main" /\ pc = "Main"
    /\ row_clues = <<>> /\ col_clues = <<>>
    /\ s = <<>> /\ m = <<>> /\ Paux = <<>>
    /\ sol1 = <<>> /\ sol2 = <<>>
    /\ ret = NoRet
    /\ checks = 0
    /\ TotalPerms = 0

\* if not checkConstraints(H, V): exit(1); then the first call
\* (src/project1nonogramFinal.py lines 233-237,
\* src/project1nonogramoptimizedmax.py lines 191-193)
MainCheck ==
    /\ pc = "Main" /\ impl \in {"Final", "OptMax"}
    /\ IF ~checkConstraints(H, V)
       THEN pc' = "exit" /\ fn' = fn
       ELSE pc' = "Start" /\ fn' = (IF impl = "Final" THEN "nonogram" ELSE "well_posed")
    /\ UNCHANGED <<impl, H, V, s, m, Paux, sol1, sol2, ret, checks, TotalPerms>>
    /\ UNCHANGED <<lineVars, mainVars>>

\* H, V = readPuzzle(...), then nonogram(V, H) is called
\* (src/NonogramSolverPlots.py lines 199-208)
MainRead ==
    /\ pc = "Main" /\ impl = "Plots"
    /\ LET p == readPuzzle(file) IN H' = p[1] /\ V' = p[2]
    /\ fn' = "nonogram" /\ pc' = "Start"
    /\ UNCHANGED <<impl, s, m, Paux, sol1, sol2, ret, checks, TotalPerms>>
    /\ UNCHANGED <<lineVars, mainVars>>

\* nonogram(V, H) has returned and well_posed(V, H) is called, with a solver
\* of its own (src/project1nonogramFinal.py lines 237-240)
MainThen ==
    /\ impl = "Final" /\ fn = "nonogram" /\ pc \in {"Solved", "Unsatisfiable"}
    /\ fn' = "well_posed" /\ pc' = "Start"
    /\ s' = <<>> /\ m' = <<>> /\ ret' = NoRet /\ checks' = 0
    /\ UNCHANGED <<impl, H, V, Paux, sol1, sol2, TotalPerms>>
    /\ UNCHANGED <<lineVars, mainVars>>

\* (_, sol1) = nonogram(V, H) has returned: the assert on the sums, the
\* statistics with their division by nBlocks, continue
\* (src/NonogramSolverPlots.py lines 208-223)
MainAssert ==
    /\ impl = "Plots" /\ fn = "nonogram" /\ pc \in {"Solved", "Unsatisfiable"}
    /\ sol1' = ret.grid
    /\ pc' = (IF sumOfSums(H) # sumOfSums(V) THEN "AssertionError"
              ELSE IF nBlocks(H) + nBlocks(V) = 0 THEN "ZeroDivisionError"
              ELSE "continue")
    /\ UNCHANGED <<impl, fn, H, V, s, m, Paux, sol2, ret, checks, TotalPerms>>
    /\ UNCHANGED <<lineVars, mainVars>>

\* the grid drawn lacks a 1 in a row or a column: while True draws again
\* (src/generateNonograms.py lines 6-12)
GenerateRedraw ==
    /\ impl = "Generate" /\ pc = "Drawn" /\ ~Accepted(grid)
    /\ grid' \in RandomGrids(Len(grid), Len(grid[1]))
    /\ UNCHANGED <<file, row_clues, col_clues>>
    /\ UNCHANGED <<lineVars, runVars>>

\* the grid drawn is accepted: the clues of its rows and of its columns
\* (src/generateNonograms.py lines 10-46)
GenerateClues ==
    /\ impl = "Generate" /\ pc = "Drawn" /\ Accepted(grid)
    /\ row_clues' = [r \in 1..Len(grid) |-> clueOf(grid[r])]
    /\ col_clues' = [c \in 1..Len(grid[1]) |-> clueOf([r \in 1..Len(grid) |-> grid[r][c]])]
    /\ pc' = "Generated"
    /\ UNCHANGED <<impl, fn, H, V, s, m, Paux, sol1, sol2, ret, checks, TotalPerms>>
    /\ UNCHANGED <<file, grid>>
    /\ UNCHANGED lineVars

MainNext ==
    \/ MainCheck
    \/ MainRead
    \/ MainThen
    \/ MainAssert
    \/ GenerateRedraw
    \/ GenerateClues
    \/ RunNext

Init == RunInit /\ LineIdle /\ MainIdle
Next == RunNext
Spec == Init /\ [][Next]_vars

InitPerms == LineInit /\ RunIdle /\ MainIdle
NextPerms == LineNext
SpecPerms == InitPerms /\ [][NextPerms]_vars

InitAuxCalls == InitAux /\ RunIdle /\ MainIdle
SpecAux == InitAuxCalls /\ [][NextAux]_vars

InitMain == MainInit /\ LineIdle
NextMain == MainNext
SpecMain == InitMain /\ [][NextMain]_vars

\* The 5x5 puzzles: the one the files give as an example, every line [1]
\* ("Simple, not well-posed puzzle (5x5)"), the second example of
\* src/project1nonogramoptimizedmax.py, with [2] as the second row, and the
\* puzzle whose every line is full.
DegenerateSize == 5

Ones == Rep(<<1>>, DegenerateSize)
OnesAndTwo == [Ones EXCEPT ![2] = <<2>>]
Full == Rep(<<DegenerateSize>>, DegenerateSize)

\* as <<H, V>>
DegeneratePuzzles == {<<Ones, Ones>>, <<OnesAndTwo, Ones>>, <<Full, Full>>}

\* well_posed of the two files that give the example, called on one of the
\* 5x5 puzzles after checkConstraints
InitDegenerate ==
    /\ impl \in {"Final", "OptMax"} /\ fn = "well_posed"
    /\ \E p \in DegeneratePuzzles : H = p[1] /\ V = p[2]
    /\ checkConstraints(H, V)
    /\ pc = "Start"
    /\ s = <<>> /\ m = <<>> /\ Paux = <<>>
    /\ sol1 = <<>> /\ sol2 = <<>>
    /\ ret = NoRet
    /\ checks = 0
    /\ TotalPerms = 0
    /\ LineIdle /\ MainIdle
NextDegenerate == RunNext
SpecDegenerate == InitDegenerate /\ [][NextDegenerate]_vars


----------------------------------------------------------------------------
(* What the claims are stated with: the runs of a line, the lines that     *)
(* realize a constraint and the grids that realize a puzzle, none of it    *)
(* taken from the enumerator.                                              *)

\* the lengths of the maximal runs of 1s of a 0/1 sequence, in order
RECURSIVE RunsFrom(_, _, _)
RunsFrom(l, k, cur) ==
    IF k > Len(l) THEN (IF cur > 0 THEN <<cur>> ELSE <<>>)
    ELSE IF l[k] = 1 THEN RunsFrom(l, k + 1, cur + 1)
    ELSE (IF cur > 0 THEN <<cur>> ELSE <<>>) \o RunsFrom(l, k + 1, 0)
Runs(l) == RunsFrom(l, 1, 0)

Feasible(constraints, sz) == AllPositive(constraints) /\ Needed(constraints) <= sz

Realizations(constraints, sz) == {l \in [1..sz -> {0, 1}] : Runs(l) = constraints}

RECURSIVE Binomial(_, _)
Binomial(n, k) ==
    IF k = 0 THEN 1 ELSE IF n <= 0 THEN 0 ELSE Binomial(n - 1, k - 1) + Binomial(n - 1, k)

Bits(cells) == [k \in 1..Len(cells) |-> IF cells[k] THEN 1 ELSE 0]

\* the grids that realize every row constraint and every column constraint
Solutions(hs, vs) ==
    {g \in Grids(Len(hs), Len(vs)) :
        /\ \A r \in 1..Len(hs) : Runs(Bits(g[r])) = hs[r]
        /\ \A c \in 1..Len(vs) : Runs(Bits(Column(g, c))) = vs[c]}

\* the grid a printed solution shows
Unrender(str, R, C) ==
    [r \in 1..R |-> [c \in 1..C |-> str[(r - 1) * (2 * C + 2) + 2 * c] = "X"]]

\* a permutation agrees with Knowns at every forced position
Agrees(pm, Knowns) ==
    Knowns.isNone \/ \A k \in 1..Len(pm) : Knowns.a[k] = -1 \/ Knowns.a[k] = pm[k]

LineDone == linePc = "done"

----------------------------------------------------------------------------
(* Claims about computePerms, under SpecPerms.                             *)

\* C2: for a feasible constraint and no Knowns, computePerms returns exactly
\* the 0/1 sequences of length sz whose maximal runs of 1s, in order, are the
\* constraint: each of them, and nothing else.
C2_ExactRealizations ==
    (LineDone /\ lineKnowns.isNone /\ Feasible(lineConstraint, lineSz))
    => /\ lineRes.out = "return"
       /\ Range(lineRes.perms) = Realizations(lineConstraint, lineSz)

C2_Witness ==
    /\ LineDone /\ lineImpl = "Final"
    /\ lineConstraint = <<1, 1>> /\ lineSz = 4
    /\ Len(lineRes.perms) = 3

\* C3: for a feasible constraint and no Knowns, the returned list holds no
\* sequence twice, every element is of length sz, and their number is
\* C(sz - sum(constraint) + 1, len(constraint)).
C3_DistinctLengthCount ==
    (LineDone /\ lineKnowns.isNone /\ Feasible(lineConstraint, lineSz))
    => /\ lineRes.out = "return"
       /\ Cardinality(Range(lineRes.perms)) = Len(lineRes.perms)
       /\ \A k \in 1..Len(lineRes.perms) : Len(lineRes.perms[k]) = lineSz
       /\ Len(lineRes.perms) =
              Binomial(lineSz - sum(lineConstraint) + 1, Len(lineConstraint))

C3_Witness ==
    /\ LineDone /\ lineImpl = "Final"
    /\ lineConstraint = <<1>> /\ lineSz = 4
    /\ Len(lineRes.perms) = 4

\* the permutations the same computePerms returns without Knowns
Unconstrained ==
    IF lineImpl = "OptMax" THEN computePerms_OptMax(lineConstraint, lineSz, None).perms
    ELSE computePerms_Plots(lineConstraint, lineSz, None).perms

\* C4: for a feasible constraint and a Knowns of length sz, computePerms
\* returns exactly the permutations of the enumeration without Knowns that
\* agree with Knowns at every forced position of the line.
C4_KnownsRespected ==
    (LineDone /\ lineImpl \in {"OptMax", "Plots"} /\ Feasible(lineConstraint, lineSz))
    => /\ lineRes.out = "return"
       /\ Range(lineRes.perms) = {pm \in Range(Unconstrained) : Agrees(pm, lineKnowns)}

\* C4 as far as it holds: of src/NonogramSolverPlots.py alone
C4_KnownsRespected_Plots == lineImpl = "Plots" => C4_KnownsRespected

\* C8: a constraint of positive values that needs more than sz cells is
\* turned down: computePerms never returns a list for it.
C8_InfeasibleRejected ==
    (LineDone /\ AllPositive(lineConstraint) /\ Needed(lineConstraint) > lineSz)
    => lineRes.out # "return"

\* C8 as far as it holds: src/NonogramSolverPlots.py ends the process
C8_InfeasibleRejected_Plots ==
    (LineDone /\ lineImpl = "Plots" /\ AllPositive(lineConstraint)
        /\ Needed(lineConstraint) > lineSz)
    => lineRes = Exit(2)


----------------------------------------------------------------------------
(* Claims about nonogram and well_posed, under Spec.                       *)

RunOf(im, f) == impl \in im /\ fn = f

WellPosedEnds == {"NoSolution", "UniqueSolved", "MultipleSolutions"}
NonogramEnds == {"Solved", "Unsatisfiable"}

\* C1: on a valid puzzle well_posed reports well-posed if and only if
\* exactly one grid realizes every row and every column constraint; it
\* reports not well-posed when no grid does and when two or more do.
C1_WellPosedIffUnique ==
    RunOf({"Final", "Plots"}, "well_posed")
    => /\ pc \notin {"exit", "IndexError"}
       /\ pc \in WellPosedEnds
          => /\ ret.val <=> Cardinality(Solutions(H, V)) = 1
             /\ pc = "NoSolution" <=> Solutions(H, V) = {}
             /\ pc = "MultipleSolutions" <=> Cardinality(Solutions(H, V)) >= 2

C1_Witness ==
    /\ RunOf({"Final"}, "well_posed")
    /\ pc = "UniqueSolved" /\ ret.val
    /\ \E r \in 1..Len(H) : H[r] = <<1, 1>>

\* the grid nonogram returned
ReturnedGrid ==
    IF impl = "Basic" THEN [r \in 1..Len(H) |-> [c \in 1..Len(V) |-> ret.grid[r][c] = 1]]
    ELSE Unrender(ret.grid, Len(H), Len(V))

\* C5: on a valid puzzle nonogram returns a solution if and only if some
\* grid realizes all row and column constraints, and the grid it returns
\* realizes them: every row decodes to its row constraint and every column
\* to its column constraint; otherwise it returns the unsat outcome.
C5_NonogramSolves ==
    (RunOf({"Final", "Basic"}, "nonogram") /\ pc # "Start" /\ pc # "FirstSolve")
    => /\ pc \in NonogramEnds
       /\ pc = "Solved" <=> Solutions(H, V) # {}
       /\ pc = "Solved" => ret.val /\ ReturnedGrid \in Solutions(H, V)
       /\ pc = "Unsatisfiable" => ret = Unsatisfiable

\* C5 as far as it holds: of src/project1nonogramFinal.py alone
C5_NonogramSolves_Final == impl = "Final" => C5_NonogramSolves

\* a grid falsifies an assertion
Falsifies(g, clause) == ~\E conj \in clause : \A lit \in conj : Holds(g, lit)

\* C6, a step of well_posed: the stages follow one another as
\* Start -> FirstSolve -> {NoSolution | HaveFirst} -> SecondSolve ->
\* {UniqueSolved | MultipleSolutions}; the solver is asked exactly on leaving
\* FirstSolve and on leaving SecondSolve, twice at most; the second question
\* is put with the first model in hand and one more assertion, which that
\* model falsifies, added to the formula of the first; a first unsat ends the
\* run at NoSolution after one question.
C6_Step ==
    RunOf({"Final", "Basic"}, "well_posed")
    => /\ <<pc, pc'>> \in
              {<<"Start", "FirstSolve">>, <<"FirstSolve", "NoSolution">>,
               <<"FirstSolve", "HaveFirst">>, <<"HaveFirst", "SecondSolve">>,
               <<"SecondSolve", "UniqueSolved">>, <<"SecondSolve", "MultipleSolutions">>}
       /\ checks' = checks + (IF pc \in {"FirstSolve", "SecondSolve"} THEN 1 ELSE 0)
       /\ checks' <= 2
       /\ pc' = "HaveFirst" => m' \in Sat(s, Len(H), Len(V))
       /\ pc' = "SecondSolve"
          => /\ checks = 1 /\ m # <<>>
             /\ Len(s') = Len(s) + 1 /\ SubSeq(s', 1, Len(s)) = s
             /\ Falsifies(m, s'[Len(s')])
       /\ pc' = "NoSolution" => checks' = 1

\* C6: every step of the uniqueness check is such a step, so that no stage
\* comes twice and the solver is asked twice at most; the check is always at
\* one of the seven stages; once the formula is built (Build leaves Start on
\* no other condition than being there) a step is there to take at each
\* stage short of NoSolution, UniqueSolved, MultipleSolutions, and none is
\* left at these three, where the run ends.
C6_TwoCallProtocol ==
    /\ [][C6_Step]_vars
    /\ [](RunOf({"Final", "Basic"}, "well_posed")
          => /\ checks <= 2
             /\ pc \in {"Start", "FirstSolve", "HaveFirst", "SecondSolve"} \cup WellPosedEnds
             /\ pc \in {"FirstSolve", "HaveFirst", "SecondSolve"} => ENABLED Next
             /\ pc \in WellPosedEnds => ~ENABLED Next)

C6_Witness ==
    /\ RunOf({"Final", "Basic"}, "well_posed")
    /\ pc = "MultipleSolutions" /\ checks = 2

\* the grids a returned value carries
Carried(r) == IF r.grid = <<>> THEN {} ELSE {r.grid}

\* C7 as claimed: the returned value tells the three outcomes apart:
\* well-posed carries the unique solution, not well-posed for several
\* solutions carries two witness grids that differ, and not well-posed for an
\* unsatisfiable puzzle is another value than that.
C7_ResultTellsOutcomes ==
    (RunOf({"Final", "Plots"}, "well_posed") /\ pc \in WellPosedEnds)
    => /\ pc = "UniqueSolved" => ret.val /\ sol1 \in Carried(ret)
       /\ pc = "MultipleSolutions"
          => ~ret.val /\ {sol1, sol2} \subseteq Carried(ret) /\ sol1 # sol2
       /\ pc = "NoSolution" => ~ret.val /\ ret # NotWellPosedMultiple

\* C7 as amended: the returned value tells well-posed from not well-posed
\* and no more: it is True, in src/NonogramSolverPlots.py with the one
\* solution, when the second check is unsat, and one and the same value, with
\* no grid in it, for several solutions and for no solution; the two witness
\* grids are locals of the function, and they differ in a cell.
C7_ResultIsVerdict ==
    (RunOf({"Final", "Plots"}, "well_posed") /\ pc \in WellPosedEnds)
    => /\ pc = "UniqueSolved"
          => /\ ret.val
             /\ impl = "Final" => ret = RetBool(TRUE)
             /\ impl = "Plots"
                => /\ ret = RetPair(TRUE, sol1)
                   /\ Solutions(H, V) = {Unrender(ret.grid, Len(H), Len(V))}
       /\ pc \in {"MultipleSolutions", "NoSolution"}
          => /\ ret = (IF impl = "Plots" THEN RetPair(FALSE, <<>>) ELSE RetBool(FALSE))
             /\ Carried(ret) = {}
       /\ pc = "MultipleSolutions"
          => /\ sol1 # sol2
             /\ \E r \in 1..Len(H), c \in 1..Len(V) :
                   Unrender(sol1, Len(H), Len(V))[r][c] # Unrender(sol2, Len(H), Len(V))[r][c]

C7_Witness ==
    /\ RunOf({"Plots"}, "well_posed")
    /\ pc = "MultipleSolutions"
    /\ sol1 # <<>> /\ sol2 # <<>> /\ ret = RetPair(FALSE, <<>>)

\* C9: on a satisfiable puzzle every cell Paux marks filled or blank has
\* that value in every grid that realizes the puzzle.
C9_ForcedCellsSound ==
    (RunOf({"OptMax", "Plots"}, "well_posed") /\ pc # "Start")
    => \A g \in Solutions(H, V) :
          \A r \in 1..Len(H), c \in 1..Len(V) :
             Paux[r][c] # -1 => g[r][c] = (Paux[r][c] = 1)

C9_Witness ==
    /\ RunOf({"OptMax", "Plots"}, "well_posed") /\ pc = "FirstSolve"
    /\ Solutions(H, V) # {}
    /\ \E r \in 1..Len(H), c \in 1..Len(V) : Paux[r][c] = 1
    /\ \E r \in 1..Len(H), c \in 1..Len(V) : Paux[r][c] = 0
    /\ \E r \in 1..Len(H), c \in 1..Len(V) : Paux[r][c] = -1

\* the ends well_posed can come to on a formula, whatever the models drawn
EndsOn(formula, R, C) ==
    IF Sat(formula, R, C) = {} THEN {"NoSolution"}
    ELSE {IF Sat(Append(formula, BlockingClause(g)), R, C) = {}
          THEN "UniqueSolved" ELSE "MultipleSolutions" : g \in Sat(formula, R, C)}

Unpruned == Encode_Final(V, H).s

\* C10: the formula with forced-cell pruning has the very satisfying grids
\* of the formula without, so that the check with pruning comes to the end
\* the check without pruning comes to, and the other way round; also when
\* every cell of a line is forced.
C10_PruningKeepsOutcome ==
    /\ (RunOf({"OptMax", "Plots"}, "well_posed") /\ pc = "FirstSolve")
       => /\ Sat(s, Len(H), Len(V)) = Sat(Unpruned, Len(H), Len(V))
          /\ EndsOn(s, Len(H), Len(V)) = EndsOn(Unpruned, Len(H), Len(V))
    /\ (RunOf({"OptMax", "Plots"}, "well_posed") /\ pc \notin {"Start", "FirstSolve", "HaveFirst", "SecondSolve"})
       => pc \in EndsOn(Unpruned, Len(H), Len(V))
    /\ (RunOf({"Final"}, "well_posed") /\ pc \in WellPosedEnds)
       => /\ pc \in EndsOn(Encode_Plots(V, H).s, Len(H), Len(V))
          /\ pc \in EndsOn(Encode_OptMax(V, H).s, Len(H), Len(V))

C10_Witness ==
    /\ RunOf({"Plots"}, "well_posed") /\ pc = "FirstSolve"
    /\ Sat(s, Len(H), Len(V)) # {}
    /\ \E r \in 1..Len(H) : \A c \in 1..Len(V) : Paux[r][c] # -1
    /\ \E r \in 1..Len(H), c \in 1..Len(V) : Paux[r][c] = -1

----------------------------------------------------------------------------
(* Claims about the programs, under SpecMain.                              *)

\* a constraint with a value that is not positive, or that needs more cells
\* than the line has
InvalidLine(c, n) == (\E k \in 1..Len(c) : c[k] <= 0) \/ sum(c) + Len(c) - 1 > n

\* the puzzle has such a constraint in a row or in a column
InvalidInput ==
    \/ \E r \in 1..Len(H) : InvalidLine(H[r], Len(V))
    \/ \E c \in 1..Len(V) : InvalidLine(V[c], Len(H))

\* the program has gone past the reading and the announcing of its input
PastInput == impl \in {"Final", "OptMax", "Plots"} /\ pc \notin {"Main", "Start"}

\* C11: invalid input is turned down before any line is enumerated and
\* before any clause is added: once the program has gone on with an invalid
\* puzzle it has ended by exit, the solver holds no assertion and no
\* permutation was counted.
C11_RejectedBeforeEncoding ==
    (PastInput /\ InvalidInput) => (pc = "exit" /\ s = <<>> /\ TotalPerms = 0)

\* C11 as far as it holds: of the programs that call checkConstraints first
C11_RejectedBeforeEncoding_Checked ==
    impl \in {"Final", "OptMax"} => C11_RejectedBeforeEncoding

\* C12: checkConstraints(H, V) is True if and only if every row constraint
\* has all its values positive and needs no more cells than there are
\* columns, and every column constraint likewise with the rows (the program
\* exits on False and on nothing else); a puzzle that passes and that no
\* grid realizes goes to the solver and ends as unsatisfiable.
C12_CheckConstraintsExact ==
    (impl \in {"Final", "OptMax"} /\ pc # "Main")
    => /\ pc = "exit" <=> InvalidInput
       /\ (~InvalidInput /\ Solutions(H, V) = {})
          => pc \in {"Start", "FirstSolve", "Unsatisfiable", "NoSolution"}
       /\ pc \in {"Unsatisfiable", "NoSolution"} => Solutions(H, V) = {}

C12_Witness ==
    /\ impl = "Final" /\ fn = "well_posed" /\ pc = "NoSolution"
    /\ Len(H) = 2 /\ Len(V) = 2
    /\ ~InvalidInput

\* the puzzle read has a row or a column written as an explicit 0
ZeroLine == (\E r \in 1..Len(H) : H[r] = <<0>>) \/ (\E c \in 1..Len(V) : V[c] = <<0>>)
AfterRead == impl = "Plots" /\ pc \notin {"Main", "Start"}

\* C19: a line of the puzzle file that is an explicit 0 is an empty
\* constraint: the puzzle read is accepted (the run does not exit) and the
\* formula of such a line is the one all-blank permutation.
C19_ZeroLineIsEmpty ==
    (AfterRead /\ ZeroLine)
    => /\ pc # "exit"
       /\ Len(s) >= Len(H) + Len(V)
       /\ \A r \in 1..Len(H) :
             H[r] = <<0>> => s[r] = {RowConj(r, Rep(0, Len(V)))}
       /\ \A c \in 1..Len(V) :
             V[c] = <<0>> => s[Len(H) + c] = {ColConj(c, Rep(0, Len(H)))}

\* what holds: a line of the file with nothing on it is the empty
\* constraint, and its formula is the one all-blank permutation
C19_EmptyLineIsEmpty ==
    (AfterRead /\ ~InvalidInput /\ pc # "exit")
    => /\ Len(s) >= Len(H) + Len(V)
       /\ \A r \in 1..Len(H) :
             H[r] = <<>> => s[r] = {RowConj(r, Rep(0, Len(V)))}
       /\ \A c \in 1..Len(V) :
             V[c] = <<>> => s[Len(H) + c] = {ColConj(c, Rep(0, Len(H)))}

\* the number of filled cells of a grid of 0s and 1s
Filled(g) == sum([r \in 1..Len(g) |-> sum(g[r])])

\* C20: for every grid generate_valid_nonogram accepts, each row clue and
\* each column clue returned is the ordered list of the lengths of the
\* maximal runs of 1s of its line, so the row clues and the column clues
\* both sum to the number of filled cells of the grid; and a puzzle whose
\* row constraints and column constraints have different sums has no
\* solution: no grid realizes it and the solver finds none.
C20_CluesAreRuns ==
    /\ (impl = "Generate" /\ pc = "Generated")
       => /\ Accepted(grid)
          /\ \A r \in 1..Len(grid) : row_clues[r] = Runs(grid[r])
          /\ \A c \in 1..Len(grid[1]) :
                col_clues[c] = Runs([r \in 1..Len(grid) |-> grid[r][c]])
          /\ sumOfSums(row_clues) = Filled(grid)
          /\ sumOfSums(col_clues) = Filled(grid)
    /\ (impl \in {"Final", "OptMax", "Plots"} /\ sumOfSums(H) # sumOfSums(V))
       => /\ Solutions(H, V) = {}
          /\ pc \in {"Main", "Start", "FirstSolve", "exit", "Unsatisfiable", "NoSolution",
                     "AssertionError"}

\* an accepted grid with a row of two runs
C20_Witness ==
    /\ impl = "Generate" /\ pc = "Generated"
    /\ \E r \in 1..Len(grid) : Len(row_clues[r]) = 2
    /\ \E c \in 1..Len(grid[1]) : col_clues[c] = <<2>>

----------------------------------------------------------------------------
(* More claims about the runs, under Spec.                                 *)

\* the printed grids nonogram of src/NonogramSolverPlots.py can return on
\* the puzzle of the run
NonogramGrids ==
    LET e == Encode_PlotsNonogram(V, H)
    IN  IF e.out # "ok" THEN {}
        ELSE {Render(g) : g \in Sat(e.s, Len(H), Len(V))}

\* C14: whenever well_posed reports well-posed and returns a grid, that grid
\* is, cell for cell, the grid nonogram returns when run independently on
\* the same puzzle: the encoding with forced-cell pruning and the one
\* without yield the same solution.
C14_SameGrid ==
    (RunOf({"Plots"}, "well_posed") /\ pc = "UniqueSolved")
    => /\ ret.val /\ ret.shape = "pair"
       /\ NonogramGrids = {ret.grid}
       /\ Unrender(ret.grid, Len(H), Len(V)) \in Solutions(H, V)

C14_Witness ==
    /\ RunOf({"Plots"}, "well_posed") /\ pc = "UniqueSolved" /\ ret.val
    /\ \E r \in 1..Len(H), c \in 1..Len(V) : Paux[r][c] = 1
    /\ \E r \in 1..Len(H), c \in 1..Len(V) : Paux[r][c] = 0
    /\ \E r \in 1..Len(H), c \in 1..Len(V) : Paux[r][c] = -1

\* the clause added last, the line formulas before it, and the first model
Blocking == s[Len(s)]
BeforeBlocking == SubSeq(s, 1, Len(s) - 1)
Blocked == RunOf({"Final", "OptMax", "Plots", "Basic"}, "well_posed") /\ pc = "SecondSolve"

\* the clause over every cell of the board, contradicting g at each
EveryCell(g) == {{<<r, c, ~g[r][c]>>} : <<r, c>> \in (1..Len(H)) \X (1..Len(V))}
\* the clause over the filled cells of g
FilledCells(g) ==
    {{<<r, c, FALSE>>} : <<r, c>> \in {rc \in (1..Len(H)) \X (1..Len(V)) : g[rc[1]][rc[2]]}}
\* g fills every cell that h fills
Covers(g, h) == \A r \in 1..Len(H), c \in 1..Len(V) : h[r][c] => g[r][c]

\* C15 as stated: the blocking clause is the disjunction over every cell of
\* the literal contradicting S1; S1 falsifies it and every other full
\* assignment satisfies it.
C15_ExcludesExactlyS1 ==
    Blocked
    => /\ Blocking = EveryCell(m)
       /\ \A g \in Grids(Len(H), Len(V)) : Falsifies(g, Blocking) <=> g = m

\* C15, amended: in the three files that build the formula from
\* permutations the blocking clause is the disjunction of the negations of
\* the cells S1 fills; it is falsified by S1 and by every assignment that
\* fills all the cells S1 fills, and by no other.  In src/project1nonogram.py
\* it is the disjunction over every cell and S1 alone falsifies it.  In all
\* four, S1 is the only assignment that satisfies the line formulas and
\* falsifies the clause.
C15_BlockingClause ==
    Blocked
    => /\ IF impl = "Basic"
          THEN /\ Blocking = EveryCell(m)
               /\ \A g \in Grids(Len(H), Len(V)) : Falsifies(g, Blocking) <=> g = m
          ELSE /\ Blocking = FilledCells(m)
               /\ \A g \in Grids(Len(H), Len(V)) : Falsifies(g, Blocking) <=> Covers(g, m)
       /\ {g \in Sat(BeforeBlocking, Len(H), Len(V)) : Falsifies(g, Blocking)} = {m}

\* a first solution with a blank cell: the assignment that fills that cell
\* too falsifies the clause of src/project1nonogramFinal.py
C15_Witness ==
    /\ Blocked /\ impl = "Final"
    /\ \E r \in 1..Len(H), c \in 1..Len(V) : m[r][c]
    /\ \E g \in Grids(Len(H), Len(V)) : g # m /\ Falsifies(g, Blocking)

\* the assignments of the n cells of a line that satisfy a line formula:
\* the cell of a literal is at its column in a row, at its row in a column
RowModels(clause, n) ==
    {a \in [1..n -> BOOLEAN] : \E conj \in clause : \A lit \in conj : a[lit[2]] = lit[3]}
ColModels(clause, n) ==
    {a \in [1..n -> BOOLEAN] : \E conj \in clause : \A lit \in conj : a[lit[1]] = lit[3]}
\* the assignments whose maximal runs of filled cells are the constraint
Realizing(constraints, n) == {a \in [1..n -> BOOLEAN] : Runs(Bits(a)) = constraints}

\* the formulas src/project1nonogram.py has added for the lines when it
\* first asks the solver: one per row, then one per column
BasicBuilt == impl = "Basic" /\ pc = "FirstSolve"

\* C16: for every line and every feasible constraint the formula of
\* apply_constraints is satisfied by exactly the assignments whose maximal
\* runs of filled cells are the constraint, as the OR-of-permutations
\* clause of src/project1nonogramFinal.py is.
C16_ApplyConstraintsExact ==
    BasicBuilt
    => LET R == Len(H)
           C == Len(V)
           perms == Encode_Final(V, H).s
       IN  /\ \A r \in 1..R :
                 /\ RowModels(s[r], C) = Realizing(H[r], C)
                 /\ RowModels(s[r], C) = RowModels(perms[r], C)
           /\ \A c \in 1..C :
                 /\ ColModels(s[R + c], R) = Realizing(V[c], R)
                 /\ ColModels(s[R + c], R) = ColModels(perms[R + c], R)

\* what holds of apply_constraints: every assignment whose runs are the
\* constraint satisfies the formula, and the clause built from computePerms
\* is exact
C16_ApplyConstraintsComplete ==
    BasicBuilt
    => LET R == Len(H)
           C == Len(V)
           perms == Encode_Final(V, H).s
       IN  /\ \A r \in 1..R :
                 /\ Realizing(H[r], C) \subseteq RowModels(s[r], C)
                 /\ RowModels(perms[r], C) = Realizing(H[r], C)
           /\ \A c \in 1..C :
                 /\ Realizing(V[c], R) \subseteq ColModels(s[R + c], R)
                 /\ ColModels(perms[R + c], R) = Realizing(V[c], R)

\* what the realizations of a line say of position k: 1 when every one has
\* it filled, 0 when every one has it blank, -1 otherwise
LineVerdict(constraints, sz, k) ==
    LET set == Realizations(constraints, sz)
    IN  IF \A l \in set : l[k] = 1 THEN 1
        ELSE IF \A l \in set : l[k] = 0 THEN 0
        ELSE -1
RowVerdict(r, c) == LineVerdict(H[r], Len(V), c)
ColVerdict(r, c) == LineVerdict(V[c], Len(H), r)

\* the pruned check has made its two passes
Deduced == RunOf({"OptMax", "Plots"}, "well_posed") /\ pc \notin {"Start", "exit", "IndexError"}

\* C17: after the row pass and the column pass, Paux[r][c] is -1 if and
\* only if neither the permutations of row r are constant at c nor those of
\* column c at r; otherwise it is 1 (0) where a forcing line has the cell
\* filled (blank) in every permutation, and the column's verdict is the one
\* kept when both lines force the cell.
C17_PauxVerdicts ==
    Deduced
    => \A r \in 1..Len(H), c \in 1..Len(V) :
          /\ Paux[r][c] = -1 <=> (RowVerdict(r, c) = -1 /\ ColVerdict(r, c) = -1)
          /\ Paux[r][c] = (IF ColVerdict(r, c) # -1 THEN ColVerdict(r, c) ELSE RowVerdict(r, c))

\* a cell its row forces filled and its column forces blank
C17_Witness ==
    /\ Deduced /\ impl = "OptMax"
    /\ \E r \in 1..Len(H), c \in 1..Len(V) :
          RowVerdict(r, c) = 1 /\ ColVerdict(r, c) = 0 /\ Paux[r][c] = 0
    /\ \E r \in 1..Len(H), c \in 1..Len(V) : Paux[r][c] = -1

\* some cell is forced filled by its row and blank by its column, or the
\* other way round
Conflict ==
    \E r \in 1..Len(H), c \in 1..Len(V) :
        /\ RowVerdict(r, c) # -1 /\ ColVerdict(r, c) # -1
        /\ RowVerdict(r, c) # ColVerdict(r, c)

\* C18: on a valid puzzle with a cell forced one way by its row and the
\* other way by its column, the pruned check reaches NoSolution: the
\* formula of the unit constraints and the knowns-filtered permutations is
\* built in full and is unsatisfiable; the run does not end before the
\* solver is asked and does not crash.
C18_ConflictIsUnsat ==
    (RunOf({"OptMax", "Plots"}, "well_posed") /\ Conflict)
    => /\ pc \in {"Start", "FirstSolve", "NoSolution"}
       /\ pc # "Start"
          => /\ Sat(s, Len(H), Len(V)) = {}
             /\ Len(s) = Len(Units(Paux, Len(H), Len(V))) + Len(H) + Len(V)
       /\ pc = "NoSolution" => (checks = 1 /\ ~ret.val)

C18_Witness ==
    /\ RunOf({"Plots"}, "well_posed") /\ Conflict
    /\ pc = "NoSolution" /\ checks = 1
    /\ \E r \in 1..Len(H), c \in 1..Len(V) : RowVerdict(r, c) = 0 /\ ColVerdict(r, c) = 1

----------------------------------------------------------------------------
(* Claims about the 5x5 example, under SpecDegenerate.                     *)

\* the grid of a printed solution realizes every line of the puzzle
Realizes(str) ==
    LET g == Unrender(str, Len(H), Len(V))
    IN  /\ \A r \in 1..Len(H) : Runs(Bits(g[r])) = H[r]
        /\ \A c \in 1..Len(V) : Runs(Bits(Column(g, c))) = V[c]

----------------------------------------------------------------------------
(* Claims about the calls of computePermsAux, under SpecAux.               *)

\* computePermsAux is under way on a feasible constraint
InAux == linePc = "aux" /\ Feasible(lineConstraint, lineSz)

\* the frame of the path of calls that position p of the line falls to: the
\* last one whose i is at most p
Covering(stk, p) ==
    CHOOSE k \in 1..Len(stk) :
        stk[k].i <= p /\ (k = Len(stk) \/ stk[k + 1].i > p)

\* what the choices on the path of calls say of position p: a blank where
\* a call took possibility (i), the block and the blank after it where a
\* call took possibility (ii), and a blank from the i of the last call on
Chosen(stk, p) ==
    LET k == Covering(stk, p)
        f == stk[k]
    IN  IF k = Len(stk) THEN 0
        ELSE IF f.at = "block" THEN 0
        ELSE IF p < f.i + f.constraints[1] THEN 1
        ELSE 0
BranchPerm(stk, sz) == [q \in 1..sz |-> Chosen(stk, q - 1)]

\* the arguments of every call under way, the length of the buffer and the
\* indices the call on top is about to write
C21_Calls ==
    /\ InAux
       => /\ Len(currPerm) = lineSz
          /\ \A k \in 1..Len(stack) :
                LET f == stack[k]
                IN  /\ 0 <= f.i /\ f.i <= lineSz
                    /\ Len(f.constraints) > 0
                       => lineSz - f.i >= sum(f.constraints) + Len(f.constraints) - 1
                    /\ f.i = lineSz => Len(f.constraints) = 0
          /\ (stack # <<>> /\ Top.at = "entry" /\ Len(Top.constraints) > 0) => Top.i < lineSz
          /\ (stack # <<>> /\ Top.at = "block")
             => /\ Top.i + Top.constraints[1] <= lineSz
                /\ Len(Top.constraints) > 1 => Top.i + Top.constraints[1] < lineSz
    /\ (linePc = "done" /\ Feasible(lineConstraint, lineSz)) => lineRes.out = "return"

\* a step that appends to Perms appends what the choices on its own path
\* of calls say
C21_Emits ==
    (InAux /\ Perms' # Perms) => Perms' = Append(Perms, BranchPerm(stack, lineSz))

\* C21: in every call of computePermsAux reached from computePerms on a
\* feasible constraint, 0 <= i <= sz and sz - i >= sum(remaining) +
\* len(remaining) - 1 when blocks remain, so that i == sz implies none
\* remain; every write to currPerm is at an index in [0, sz) and the length
\* of currPerm stays sz; and every permutation appended to Perms is the one
\* the blank/block choices of its own branch determine, whatever an earlier
\* branch left in the buffer.
C21_BufferDiscipline == []C21_Calls /\ [][C21_Emits]_vars

\* base case #2 is reached after an earlier branch has emitted, with a 1 of
\* that branch still in the buffer at or after i
C21_Witness ==
    /\ InAux /\ lineImpl = "Final" /\ Len(Perms) > 0
    /\ stack # <<>> /\ Top.at = "entry" /\ Len(Top.constraints) = 0 /\ Top.i < lineSz
    /\ Len(lineConstraint) = 2
    /\ \E p \in Top.i..(lineSz - 1) : currPerm[p + 1] = 1

====
